---- MODULE Spec2Model ----
(***************************************************************************)
(* Model of main.py: the ChatIssueDetector (normalisation, keyword match,  *)
(* sentiment fallback, time-windowed retrieval) and the /get_messages      *)
(* route that drives it on the process-wide detector instance.            *)
(*                                                                         *)
(* Text is a sequence of one-character strings.  Time is counted in units  *)
(* of 30 minutes.  A timestamp string is a record that keeps its written   *)
(* form (local time and UTC offset) apart from the instant it parses to.   *)
(***************************************************************************)
EXTENDS Integers, Sequences, FiniteSets, TLC

\* ------------------------------------------------------------------ bounds
MaxLen == 5        \* longest text enumerated for the normaliser
MaxPage == 2       \* longest page the message source returns in the model
MaxClock == 5      \* latest reading of the UTC clock

\* ------------------------------------------------------ characters, regex
WS == {" ", "\t", "\n"}

UpperAlpha == <<"A","B","C","D","E","F","G","H","I","J","K","L","M",
                "N","O","P","Q","R","S","T","U","V","W","X","Y","Z">>

LowerAlpha == <<"a","b","c","d","e","f","g","h","i","j","k","l","m",
                "n","o","p","q","r","s","t","u","v","w","x","y","z">>

Digits == {"0","1","2","3","4","5","6","7","8","9"}

\* str.lower() on one character
LowerChar(c) ==
  IF \E i \in 1..26 : UpperAlpha[i] = c
  THEN LowerAlpha[CHOOSE i \in 1..26 : UpperAlpha[i] = c]
  ELSE c

\* str.lower()
Lower(s) == [i \in 1..Len(s) |-> LowerChar(s[i])]

\* the regex class \w
IsWordChar(c) ==
  \/ \E i \in 1..26 : UpperAlpha[i] = c \/ LowerAlpha[i] = c
  \/ c \in Digits
  \/ c = "_"

\* the regex class \s
IsSpace(c) == c \in WS

RECURSIVE NonSpaceRun(_, _)
\* greedy \S* from position i: the length of the run matched
NonSpaceRun(s, i) ==
  IF i > Len(s) \/ IsSpace(s[i]) THEN 0 ELSE 1 + NonSpaceRun(s, i + 1)

RECURSIVE SpaceRun(_, _)
\* greedy \s* from position i: the length of the run matched
SpaceRun(s, i) ==
  IF i > Len(s) \/ ~IsSpace(s[i]) THEN 0 ELSE 1 + SpaceRun(s, i + 1)

\* re.sub(r"^/\S+\s*", "", text)
ReSubCommand(s) ==
  IF Len(s) >= 1 /\ s[1] = "/" /\ NonSpaceRun(s, 2) >= 1
  THEN LET k == NonSpaceRun(s, 2)
           w == SpaceRun(s, 2 + k)
       IN  SubSeq(s, 2 + k + w, Len(s))
  ELSE s

RECURSIVE LStrip(_)
LStrip(s) ==
  IF s # <<>> /\ IsSpace(Head(s)) THEN LStrip(Tail(s)) ELSE s

RECURSIVE RStrip(_)
RStrip(s) ==
  IF s # <<>> /\ IsSpace(s[Len(s)]) THEN RStrip(SubSeq(s, 1, Len(s) - 1)) ELSE s

StripLeftOnly(s) == LStrip(s)

\* str.strip()
Strip(s) == RStrip(LStrip(s))

\* cleaned_text = re.sub(r"^/\S+\s*", "", text).strip()
CleanText(s) == Strip(ReSubCommand(s))

\* ---------------------------------------------------------------- keywords
issue_keywords ==
  << <<"i","s","s","u","e">>,
     <<"p","r","o","b","l","e","m">>,
     <<"e","r","r","o","r">>,
     <<"b","u","g">>,
     <<"f","a","i","l">>,
     <<"c","r","a","s","h">>,
     <<"n","o","t"," ","w","o","r","k","i","n","g">> >>

\* \b between position p and p+1 of s (p = 0 is the start, p = Len(s) the end)
WordBoundary(s, p) ==
  LET before == p >= 1 /\ p <= Len(s) /\ IsWordChar(s[p])
      after  == p + 1 >= 1 /\ p + 1 <= Len(s) /\ IsWordChar(s[p + 1])
  IN  before # after

\* re.search(rf"\b{kw}\b", s)
ReSearchWord(kw, s) ==
  \E i \in 1..Len(s) :
     /\ i + Len(kw) - 1 <= Len(s)
     /\ SubSeq(s, i, i + Len(kw) - 1) = kw
     /\ WordBoundary(s, i - 1)
     /\ WordBoundary(s, i + Len(kw) - 1)

\* any(re.search(rf"\b{kw}\b", cleaned_text.lower()) for kw in issue_keywords)
AnyKeyword(cleaned) ==
  \E k \in 1..Len(issue_keywords) : ReSearchWord(issue_keywords[k], Lower(cleaned))

\* -------------------------------------------------------------- classifier
\* what one call self.model(cleaned_text) can do: return [{"label": l}],
\* raise, return [] (IndexError at result[0]) or return [{}] (KeyError)
Label(l) == [kind |-> "ok", label |-> l]

Raises == [kind |-> "raise", label |-> <<>>]

EmptyList == [kind |-> "empty", label |-> <<>>]

NoLabel == [kind |-> "nolabel", label |-> <<>>]

NotCalled == [kind |-> "notcalled", label |-> <<>>]

NEGATIVE == <<"N","E","G","A","T","I","V","E">>

Outcomes ==
  { Label(NEGATIVE),
    Label(<<"n","e","g","a","t","i","v","e">>),
    Label(<<"P","O","S","I","T","I","V","E">>),
    Raises, EmptyList, NoLabel }

\* str.upper() on one character
UpperChar(c) ==
  IF \E i \in 1..26 : LowerAlpha[i] = c
  THEN UpperAlpha[CHOOSE i \in 1..26 : LowerAlpha[i] = c]
  ELSE c

\* str.upper()
Upper(s) == [i \in 1..Len(s) |-> UpperChar(s[i])]

\* the try/except around the classifier call in detect_issue
SentimentUnguarded(out) ==
  [raised |-> out.kind # "ok",
   value  |-> out.kind = "ok" /\ Upper(out.label) = NEGATIVE]

Sentiment(out) ==
  [raised |-> FALSE,
   value  |-> out.kind = "ok" /\ Upper(out.label) = NEGATIVE]

\* detect_issue(text) when the classifier, if called, behaves as out:
\* the value returned, whether the classifier was called, whether it raised
detect_issue(text, out) ==
  LET cleaned_text == CleanText(text)
  IN  IF cleaned_text = <<>>
      THEN [value |-> FALSE, called |-> FALSE, raised |-> FALSE]
      ELSE IF AnyKeyword(cleaned_text)
      THEN [value |-> TRUE, called |-> FALSE, raised |-> FALSE]
      ELSE [value |-> Sentiment(out).value, called |-> TRUE,
            raised |-> Sentiment(out).raised]

\* -------------------------------------------------------------- timestamps
\* a timestamp string: "aware" carries a UTC offset, "naive" none, "bad" is
\* not a date, "empty" is the default of msg.get("createTime", "")
TimeStr(kind, local, off) == [kind |-> kind, local |-> local, off |-> off]

EmptyTimeStr == TimeStr("empty", 0, 0)

parseLenient(ts) ==
  [ok |-> TRUE, aware |-> ts.kind # "naive", instant |-> ts.local - ts.off]

\* dateutil.parser.parse
parse(ts) ==
  [ok      |-> ts.kind \in {"aware", "naive"},
   aware   |-> ts.kind = "aware",
   instant |-> ts.local - ts.off]

\* time_threshold.isoformat("T") + "Z"
FormatZ(t) == TimeStr("aware", t, 0)

TimeThresholdHalfHours(now, hours_ago) == now - hours_ago

\* now - timedelta(hours=hours_ago), in units of 30 minutes
TimeThreshold(now, hours_ago) == now - 2 * hours_ago

\* msg_time_obj >= parse(formatted_time); comparing a naive with an aware
\* datetime raises TypeError
CompareGE(a, b) ==
  [raised |-> ~a.ok \/ ~b.ok \/ a.aware # b.aware,
   value  |-> a.instant >= b.instant]

\* ----------------------------------------------------------------- messages
Msg(hasText, text, hasTime, createTime) ==
  [hasText |-> hasText, text |-> text, hasTime |-> hasTime, createTime |-> createTime]

NoText == <<"N","o"," ","T","e","x","t">>

\* msg.get("text", "No Text")
GetText(msg) == IF msg.hasText THEN msg.text ELSE NoText

\* msg.get("createTime", "")
GetCreateTime(msg) == IF msg.hasTime THEN msg.createTime ELSE EmptyTimeStr

\* the dict appended to messages
Entry(msg, cleaned_text, is_issue) ==
  [message |-> cleaned_text, timestamp |-> GetCreateTime(msg), is_issue |-> is_issue]

Prepend(messages, e) == <<e>> \o messages

\* messages.append(...)
AppendEntry(messages, e) == Append(messages, e)

InWindowStrict(msg_time_obj, formatted_time) ==
  [raised |-> CompareGE(msg_time_obj, parse(formatted_time)).raised,
   value  |-> msg_time_obj.instant > parse(formatted_time).instant]

\* if msg_time_obj >= parse(formatted_time)
InWindow(msg_time_obj, formatted_time) ==
  CompareGE(msg_time_obj, parse(formatted_time))

\* one iteration of the for loop of get_messages over msg, with the
\* classifier behaving as out: the new list, the classifier's use, whether
\* an exception left the loop
LoopBody(messages, msg, formatted_time, out) ==
  LET text == GetText(msg)
      msg_time == GetCreateTime(msg)
      cleaned_text == CleanText(text)
      msg_time_obj == parse(msg_time)
      cmp == InWindow(msg_time_obj, formatted_time)
      d == detect_issue(cleaned_text, out)
  IN  IF ~msg_time_obj.ok \/ cmp.raised
      THEN [raised |-> TRUE, messages |-> messages, used |-> NotCalled]
      ELSE IF ~cmp.value
      THEN [raised |-> FALSE, messages |-> messages, used |-> NotCalled]
      ELSE [raised |-> d.raised,
            messages |-> AppendEntry(messages, Entry(msg, cleaned_text, d.value)),
            used |-> IF d.called THEN out ELSE NotCalled]

\* ------------------------------------------------------------- the request
\* a query argument or header: request.args.get / request.headers.get return
\* None when it is absent
Absent == [present |-> FALSE, value |-> <<>>]

Given(v) == [present |-> TRUE, value |-> v]

\* "Bearer <token>" is written as the words <<"Bearer ", token>>
BearerA == Given(<<"Bearer ", "tokA">>)

BearerB == Given(<<"Bearer ", "tokB">>)

Headers == { Absent, Given(<<"Basic ", "tokA">>), Given(<<"Bearer ">>), BearerA }

SpaceIds == { Absent, Given(<<>>), Given(<<"s1">>) }

HoursArgs == { Absent, Given(<<"0">>), Given(<<"1">>), Given(<<"x">>) }

Req(space_id, auth_header, hours_ago) ==
  [space_id |-> space_id, auth_header |-> auth_header, hours_ago |-> hours_ago]

Requests == { Req(s, a, h) : s \in SpaceIds, a \in Headers, h \in HoursArgs }

\* not space_id
MissingSpaceId(r) == ~r.space_id.present \/ r.space_id.value = <<>>

\* not auth_header or not auth_header.startswith("Bearer ")
BadAuthHeader(r) ==
  \/ ~r.auth_header.present
  \/ r.auth_header.value = <<>>
  \/ r.auth_header.value[1] # "Bearer "

RECURSIVE UpToBearer(_)
UpToBearer(ws) ==
  IF ws = <<>> \/ Head(ws) = "Bearer " THEN <<>> ELSE <<Head(ws)>> \o UpToBearer(Tail(ws))

\* auth_header.split("Bearer ")[1], for a header that starts with "Bearer "
TokenOf(r) == UpToBearer(Tail(r.auth_header.value))

\* int(request.args.get("hours_ago", 1)); ok is FALSE when int() raises
HoursOf(r) ==
  IF ~r.hours_ago.present THEN [ok |-> TRUE, value |-> 1]
  ELSE IF r.hours_ago.value = <<"0">> THEN [ok |-> TRUE, value |-> 0]
  ELSE IF r.hours_ago.value = <<"1">> THEN [ok |-> TRUE, value |-> 1]
  ELSE IF r.hours_ago.value = <<"2">> THEN [ok |-> TRUE, value |-> 2]
  ELSE [ok |-> FALSE, value |-> 0]

\* pageSize=10 in the list call
PageSize == 10

\* the messages of the one page the source returns
FirstPage(src) == SubSeq(src, 1, IF Len(src) < PageSize THEN Len(src) ELSE PageSize)

\* -------------------------------------------------------------------- state
Threads == {1, 2}

NoService == [built |-> FALSE, token |-> <<>>]

ServiceFor(token) == [built |-> TRUE, token |-> token]

NoReq == Req(Absent, Absent, Absent)

\* the locals of one request thread
IdleLocal ==
  [pc |-> "idle", req |-> NoReq, token |-> <<>>, hours_ago |-> 0, now |-> 0,
   formatted_time |-> FormatZ(0), used |-> NoService, page |-> <<>>, idx |-> 0,
   messages |-> <<>>, log |-> <<>>, status |-> 0]

VARIABLES
  th,        \* th[t]: the locals of the request thread t and its response
  creds,     \* detector.creds, shared by all requests
  service,   \* detector.service, shared by all requests
  source,    \* the messages of the chat space, newest first
  pending,   \* pending[t]: the requests still to arrive on thread t
  clock,     \* the UTC clock
  prev,      \* the response of the request served before the current one
  classifier, \* the loaded pipeline: whether it is a pure function of its
             \* input, and the answers it has given so far
  text,      \* input of the normaliser run on its own
  cleaned    \* its output

vars == <<th, creds, service, source, pending, clock, prev, classifier, text, cleaned>>

Respond(l, status) == [l EXCEPT !.pc = "done", !.status = status]

ReceiveNoCheck(l, r) ==
  IF BadAuthHeader(r) THEN Respond([l EXCEPT !.req = r], 401)
  ELSE IF ~HoursOf(r).ok THEN Respond([l EXCEPT !.req = r], 500)
  ELSE [l EXCEPT !.req = r, !.pc = "creds", !.token = TokenOf(r),
                 !.hours_ago = HoursOf(r).value]

\* fetch_messages up to the call of detector.get_messages
Receive(l, r) ==
  IF MissingSpaceId(r) THEN Respond([l EXCEPT !.req = r], 400)
  ELSE IF BadAuthHeader(r) THEN Respond([l EXCEPT !.req = r], 401)
  ELSE IF ~HoursOf(r).ok THEN Respond([l EXCEPT !.req = r], 500)
  ELSE [l EXCEPT !.req = r, !.pc = "creds", !.token = TokenOf(r),
                 !.hours_ago = HoursOf(r).value]

\* a request arrives on thread t: fetch_messages starts
FetchMessages(t) ==
  /\ th[t].pc \in {"idle", "done"}
  /\ pending[t] # <<>>
  /\ th' = [th EXCEPT ![t] = Receive(IdleLocal, Head(pending[t]))]
  /\ pending' = [pending EXCEPT ![t] = Tail(pending[t])]
  /\ prev' = th[t]
  /\ UNCHANGED <<creds, service, source, clock, classifier, text, cleaned>>

\* authenticate_user: the token check and self.creds = Credentials(token)
AuthCreds(t) ==
  /\ th[t].pc = "creds"
  /\ IF th[t].token = <<>>
     THEN /\ th' = [th EXCEPT ![t] = Respond(@, 500)]
          /\ UNCHANGED creds
     ELSE /\ th' = [th EXCEPT ![t].pc = "build"]
          /\ creds' = th[t].token
  /\ UNCHANGED <<service, source, pending, clock, prev, classifier, text, cleaned>>

\* authenticate_user: self.service = build(..., credentials=self.creds),
\* then now = datetime.utcnow() and the threshold of get_messages
AuthBuild(t) ==
  /\ th[t].pc = "build"
  /\ service' = ServiceFor(creds)
  /\ \E now \in clock..MaxClock :
        /\ clock' = now
        /\ th' = [th EXCEPT ![t].pc = "list", ![t].now = now,
                    ![t].formatted_time = FormatZ(TimeThreshold(now, th[t].hours_ago))]
  /\ UNCHANGED <<creds, source, pending, prev, classifier, text, cleaned>>

\* self.service.spaces().messages().list(...).execute(); it may fail
List(t) ==
  /\ th[t].pc = "list"
  /\ \E ok \in BOOLEAN :
        th' = [th EXCEPT ![t] =
                 IF ok THEN [@ EXCEPT !.pc = "loop", !.used = service,
                                      !.page = FirstPage(source)]
                 ELSE Respond([@ EXCEPT !.used = service], 500)]
  /\ UNCHANGED <<creds, service, source, pending, clock, prev, classifier, text, cleaned>>

\* the answers self.model(input) may give in the current state
Answers(input) ==
  IF classifier.stable /\ \E m \in classifier.memo : m.input = input
  THEN { m.out : m \in { k \in classifier.memo : k.input = input } }
  ELSE Outcomes

\* one iteration of the for loop
LoopStep(t) ==
  /\ th[t].pc = "loop"
  /\ th[t].idx < Len(th[t].page)
  /\ LET l == th[t]
         msg == l.page[l.idx + 1]
         input == CleanText(CleanText(GetText(msg)))
     IN  \E out \in Answers(input) :
           LET b == LoopBody(l.messages, msg, l.formatted_time, out)
           IN  /\ th' = [th EXCEPT ![t] =
                          IF b.raised
                          THEN Respond([l EXCEPT !.idx = l.idx + 1, !.messages = <<>>,
                                                 !.log = Append(l.log, b.used)], 500)
                          ELSE [l EXCEPT !.idx = l.idx + 1, !.messages = b.messages,
                                         !.log = Append(l.log, b.used)]]
               /\ classifier' =
                    IF classifier.stable /\ b.used # NotCalled
                    THEN [classifier EXCEPT !.memo = @ \cup {[input |-> input, out |-> out]}]
                    ELSE classifier
  /\ UNCHANGED <<creds, service, source, pending, clock, prev, text, cleaned>>

\* return messages; return jsonify(messages)
Return(t) ==
  /\ th[t].pc = "loop"
  /\ th[t].idx = Len(th[t].page)
  /\ th' = [th EXCEPT ![t] = Respond(@, 200)]
  /\ UNCHANGED <<creds, service, source, pending, clock, prev, classifier, text, cleaned>>

\* the normalisation line on its own
Normalize ==
  /\ cleaned = <<"?">>
  /\ cleaned' = CleanText(text)
  /\ UNCHANGED <<th, creds, service, source, pending, clock, prev, classifier, text>>

Step(t) ==
  \/ FetchMessages(t)
  \/ AuthCreds(t)
  \/ AuthBuild(t)
  \/ List(t)
  \/ LoopStep(t)
  \/ Return(t)

\* ------------------------------------------------------------------ inputs
\* the texts of the messages in the space
Texts ==
  { <<>>,
    <<"/","c"," ","/","b","u","g">>,
    <<"/","c"," ","/","b","u","g"," ","x">>,
    <<" ","B","u","g","!">>,
    <<"b","u","g","s">> }

\* messages of every text, or with no text, at 02:00Z; one message at
\* 03:00+01:00 (the same instant), at 01:00Z, at 02:00 without a zone, with a
\* createTime that is no date, and with no createTime
MsgPool ==
  { Msg(TRUE, x, TRUE, TimeStr("aware", 4, 0)) : x \in Texts }
  \cup { Msg(FALSE, <<>>, TRUE, TimeStr("aware", 4, 0)) }
  \cup { Msg(TRUE, <<"e","r","r","o","r">>, TRUE, ts) :
           ts \in { TimeStr("aware", 6, 2), TimeStr("aware", 2, 0),
                    TimeStr("naive", 4, 0), TimeStr("bad", 0, 0) } }
  \cup { Msg(TRUE, <<"o","k">>, FALSE, EmptyTimeStr) }

SmallPool ==
  { Msg(TRUE, <<"b","u","g","s">>, TRUE, TimeStr("aware", 4, 0)),
    Msg(TRUE, <<"e","r","r","o","r">>, TRUE, TimeStr("aware", 3, 0)),
    Msg(TRUE, <<"o","k">>, TRUE, TimeStr("aware", 2, 0)) }

ConcPool ==
  { Msg(TRUE, <<"b","u","g","s">>, TRUE, TimeStr("aware", 4, 0)),
    Msg(TRUE, <<"e","r","r","o","r">>, TRUE, TimeStr("aware", 3, 0)) }

\* orderBy="createTime desc": the dated messages come newest first
NewestFirst(src) ==
  \A i, j \in 1..Len(src) :
     (i < j /\ parse(GetCreateTime(src[i])).ok /\ parse(GetCreateTime(src[j])).ok)
        => parse(GetCreateTime(src[i])).instant >= parse(GetCreateTime(src[j])).instant

SourcesOver(pool) ==
  { src \in UNION { [1..n -> pool] : n \in 0..MaxPage } : NewestFirst(src) }

Alphabet == {"/", "a", " "}

Strings == UNION { [1..n -> Alphabet] : n \in 0..MaxLen }

\* ----------------------------------------------------------- specifications
InitDetector ==
  /\ th = [t \in Threads |-> IdleLocal]
  /\ creds = <<>>
  /\ service = NoService
  /\ prev = IdleLocal

\* one request at a time on the freshly constructed detector
Init ==
  /\ InitDetector
  /\ source \in SourcesOver(MsgPool)
  /\ pending \in { [t \in Threads |-> IF t = 1 THEN <<r>> ELSE <<>>] : r \in Requests }
  /\ classifier = [stable |-> FALSE, memo |-> {}]
  /\ clock = 4
  /\ text = <<>>
  /\ cleaned = <<>>

Next == \E t \in Threads : Step(t)

Spec == Init /\ [][Next]_vars

\* the same request twice in succession
InitTwice ==
  /\ InitDetector
  /\ source \in SourcesOver(SmallPool)
  /\ pending \in { [t \in Threads |-> IF t = 1 THEN <<r, r>> ELSE <<>>] :
                     r \in { Req(Given(<<"s1">>), BearerA, h) : h \in HoursArgs } }
  /\ classifier = [stable |-> TRUE, memo |-> {}]
  /\ clock = 4
  /\ text = <<>>
  /\ cleaned = <<>>

SpecTwice == InitTwice /\ [][Next]_vars

\* two requests served by two threads of the same process
InitConc ==
  /\ InitDetector
  /\ source \in SourcesOver(ConcPool)
  /\ classifier = [stable |-> TRUE, memo |-> {}]
  /\ pending \in { [t \in Threads |-> IF t = 1 THEN <<r1>> ELSE <<r2>>] :
                     r1 \in { Req(s, BearerA, Absent) : s \in SpaceIds },
                     r2 \in { Req(Given(<<"s1">>), a, Absent) : a \in {BearerA, BearerB} } }
  /\ clock = MaxClock
  /\ text = <<>>
  /\ cleaned = <<>>

SpecConc == InitConc /\ [][Next]_vars

\* the normaliser on every text over the alphabet
InitNorm ==
  /\ InitDetector
  /\ source = <<>>
  /\ pending = [t \in Threads |-> <<>>]
  /\ classifier = [stable |-> FALSE, memo |-> {}]
  /\ clock = 4
  /\ text \in Strings
  /\ cleaned = <<"?">>

NextNorm == Normalize

SpecNorm == InitNorm /\ [][NextNorm]_vars

\* ------------------------------------------------------- shared vocabulary
\* the instant a createTime string denotes
InstantOf(ts) == ts.local - ts.off

\* the threshold of the call whose locals are l
ThresholdOf(l) == l.now - 2 * l.hours_ago

\* the messages of the page the loop of l has gone through
Seen(l) == SubSeq(l.page, 1, l.idx)

\* l is inside the loop or has returned its list
HasList(l) == l.pc = "loop" \/ (l.pc = "done" /\ l.status = 200)

\* the messages among ms that lie in the window of l
InWindowOf(l, ms) ==
  LET Recent(m) == InstantOf(m.createTime) >= ThresholdOf(l)
  IN  SelectSeq(ms, Recent)

ClassifierFailed(out) == out.kind \in {"raise", "empty", "nolabel"}

\* C1: the output holds an entry for a message of the page if and only if the
\* message's parsed createTime is at or after now - hours_ago, for the one
\* now of the call; a message exactly at the threshold is included.
C1_WindowFilter ==
  \A t \in Threads :
     HasList(th[t]) =>
        LET kept == InWindowOf(th[t], Seen(th[t]))
        IN  /\ Len(th[t].messages) = Len(kept)
            /\ \A i \in 1..Len(kept) :
                  /\ th[t].messages[i].timestamp = kept[i].createTime
                  /\ InstantOf(th[t].messages[i].timestamp) >= ThresholdOf(th[t])

C1_Witness ==
  \E t \in Threads :
     /\ th[t].pc = "done" /\ th[t].status = 200
     /\ Len(th[t].page) = 2 /\ Len(th[t].messages) = 1
     /\ InstantOf(th[t].messages[1].timestamp) = ThresholdOf(th[t])
     /\ InstantOf(th[t].page[2].createTime) < ThresholdOf(th[t])

\* C2: every output entry whose message field is non-empty and contains an
\* issue keyword at word boundaries has is_issue true.
C2_KeywordPriority ==
  \A t \in Threads :
     \A i \in 1..Len(th[t].messages) :
        (th[t].messages[i].message # <<>> /\ AnyKeyword(th[t].messages[i].message))
           => th[t].messages[i].is_issue

\* the position in the output of the entry of the i-th message of the page
EntryPos(l, i) == Len(InWindowOf(l, SubSeq(l.page, 1, i)))

\* C3: a classifier failure never leaves detect_issue or get_messages: the
\* only exception of the loop is a timestamp's, every in-window message has
\* its entry, the entry of a failed classification has is_issue false and
\* the entry of a successful one the label the classifier gave.
C3_ClassifierContained ==
  \A t \in Threads :
     /\ (th[t].pc = "done" /\ th[t].status = 500 /\ th[t].idx >= 1)
           => th[t].page[th[t].idx].createTime.kind # "aware"
     /\ HasList(th[t]) =>
           /\ Len(th[t].messages) = EntryPos(th[t], th[t].idx)
           /\ \A i \in 1..th[t].idx :
                 LET out == th[t].log[i]
                     e == th[t].messages[EntryPos(th[t], i)]
                 IN  /\ ClassifierFailed(out) => ~e.is_issue
                     /\ out.kind = "ok" => (e.is_issue <=> Upper(out.label) = NEGATIVE)

C3_Witness ==
  \E t \in Threads :
     /\ th[t].pc = "done" /\ th[t].status = 200
     /\ Len(th[t].messages) = 2
     /\ ClassifierFailed(th[t].log[1]) /\ ~th[t].messages[1].is_issue
     /\ th[t].log[2].kind = "ok" /\ th[t].messages[2].is_issue

\* C4: the fetch of a request uses the service built from that request's
\* own token, under every interleaving of two requests.
C4_OwnCredentials ==
  \A t \in Threads : th[t].used.built => th[t].used.token = th[t].token

RECURSIVE IsSubsequence(_, _)
\* the entries es come from messages of ms, in the order of ms, each once
IsSubsequence(es, ms) ==
  IF es = <<>> THEN TRUE
  ELSE IF ms = <<>> THEN FALSE
  ELSE IF /\ Head(ms).hasTime
          /\ Head(es).timestamp = Head(ms).createTime
          /\ Head(es).message = Strip(ReSubCommand(GetText(Head(ms))))
       THEN IsSubsequence(Tail(es), Tail(ms))
       ELSE IsSubsequence(es, Tail(ms))

\* C5: the output is a subsequence of the page (same relative order, no
\* duplicates) and each entry carries the original createTime string.
C5_OrderPreserved ==
  \A t \in Threads : HasList(th[t]) => IsSubsequence(th[t].messages, Seen(th[t]))

C5_Witness ==
  \E t \in Threads :
     /\ th[t].pc = "done" /\ th[t].status = 200
     /\ Len(th[t].messages) = 2
     /\ th[t].messages[1].timestamp.off = 0
     /\ th[t].messages[2].timestamp.off # 0
     /\ th[t].messages[1].message # th[t].messages[2].message

Malformed(m) == ~m.hasTime \/ m.createTime.kind = "bad"

\* C6: once the loop has met a message whose createTime is missing or
\* unparsable the call has failed with an error and returns no list.
C6_ParseFailsLoudly ==
  \A t \in Threads :
     (\E i \in 1..th[t].idx : Malformed(th[t].page[i]))
        => (th[t].pc = "done" /\ th[t].status = 500 /\ th[t].messages = <<>>)

C6_Witness ==
  \E t \in Threads :
     /\ th[t].pc = "done" /\ th[t].status = 500
     /\ th[t].idx = 2
     /\ ~Malformed(th[t].page[1])
     /\ InstantOf(th[t].page[1].createTime) >= ThresholdOf(th[t])
     /\ Malformed(th[t].page[2])

AllSpace(s, i, j) == \A k \in i..j : s[k] \in WS

\* s without its leading and trailing whitespace
Trimmed(s) ==
  IF AllSpace(s, 1, Len(s)) THEN <<>>
  ELSE LET i == CHOOSE a \in 1..Len(s) : s[a] \notin WS /\ AllSpace(s, 1, a - 1)
           j == CHOOSE b \in 1..Len(s) : s[b] \notin WS /\ AllSpace(s, b + 1, Len(s))
       IN  SubSeq(s, i, j)

\* n is the length of a leading run: a slash, one or more non-whitespace
\* characters, then at least minSpace whitespace characters, as many as follow
LeadingRun(s, n, minSpace) ==
  \E k \in 1..Len(s), w \in minSpace..Len(s) :
     /\ n = 1 + k + w /\ n <= Len(s)
     /\ s[1] = "/"
     /\ \A p \in 2..(1 + k) : s[p] \notin WS
     /\ AllSpace(s, 2 + k, n)
     /\ (w = 0 => (n = Len(s) \/ s[n + 1] \in WS))
     /\ (n < Len(s) /\ w > 0) => s[n + 1] \notin WS

\* the reference normalisation: remove the single leading run, then trim
Reference(s, minSpace) ==
  IF \E n \in 1..Len(s) : LeadingRun(s, n, minSpace)
  THEN LET n == CHOOSE m \in 1..Len(s) :
                   /\ LeadingRun(s, m, minSpace)
                   /\ \A m2 \in 1..Len(s) : LeadingRun(s, m2, minSpace) => m2 <= m
       IN  Trimmed(SubSeq(s, n + 1, Len(s)))
  ELSE Trimmed(s)

\* C7 as stated: the normalised text is the text without its single leading
\* run of a slash, non-whitespace characters and whitespace, then trimmed.
C7_AsStated == cleaned # <<"?">> => cleaned = Reference(text, 1)

\* C7 amended: the whitespace that ends the leading run is optional, so that
\* a bare command such as "/fix" is removed as a whole.
C7_Normalize == cleaned # <<"?">> => cleaned = Reference(text, 0)

C7_Witness == text = <<"/", "a">> /\ cleaned = <<>>

\* the second of two requests in succession has returned, as the first had
BothReturned(t) ==
  /\ th[t].pc = "done" /\ th[t].status = 200
  /\ prev.pc = "done" /\ prev.status = 200
  /\ prev.req = th[t].req
  /\ prev.page = th[t].page
  /\ prev.now <= th[t].now

\* C8 as stated: two calls in succession with an unchanged source, the same
\* hours_ago and a deterministic classifier return the same sequence.
C8_AsStated ==
  \A t \in Threads : BothReturned(t) => th[t].messages = prev.messages

\* C8 amended: they return the same sequence provided no message of the page
\* has its createTime at or after the first call's threshold and before the
\* second call's.
C8_Idempotent ==
  \A t \in Threads :
     (/\ BothReturned(t)
      /\ \A i \in 1..Len(th[t].page) :
            ~(/\ InstantOf(th[t].page[i].createTime) >= ThresholdOf(prev)
              /\ InstantOf(th[t].page[i].createTime) < ThresholdOf(th[t])))
        => th[t].messages = prev.messages

C8_Witness ==
  \E t \in Threads :
     /\ BothReturned(t)
     /\ prev.now < th[t].now
     /\ Len(th[t].messages) = 2
     /\ Len(th[t].page) = 2
     /\ th[t].log[1].kind = "ok"
     /\ th[t].messages = prev.messages

\* C9: the classifier is called at most once per message of the page, and
\* not at all for a message whose normalised text is empty or matches an
\* issue keyword.
C9_ClassifierGuard ==
  \A t \in Threads :
     /\ Len(th[t].log) <= Len(th[t].page)
     /\ \A i \in 1..Len(th[t].log) :
           LET normalized == Strip(ReSubCommand(GetText(th[t].page[i])))
           IN  (normalized = <<>> \/ AnyKeyword(normalized))
                  => th[t].log[i] = NotCalled

\* C10: a request without a space_id, or with an empty one, ends in a 400
\* response whatever its Authorization header, with no authentication, no
\* fetch, no classifier call and the detector as it was.
C10_MissingSpaceId ==
  \A t \in Threads :
     (th[t].pc # "idle" /\ MissingSpaceId(th[t].req))
        => /\ th[t].pc = "done" /\ th[t].status = 400
           /\ th[t].used = NoService /\ th[t].log = <<>> /\ th[t].messages = <<>>
           /\ creds = <<>> /\ service = NoService

C10_Witness ==
  \E t \in Threads :
     /\ th[t].pc = "done" /\ th[t].status = 400
     /\ th[t].req.space_id = Given(<<>>)
     /\ th[t].req.auth_header = BearerA

====
